---- MODULE Spec2Model ----
(***************************************************************************)
(* Model of the Android plugin build service (manifest merge, brace-scope  *)
(* extraction) and of the logger's password masking.                       *)
(***************************************************************************)
EXTENDS Integers, Sequences, FiniteSets, TLC

\* pc: "idle" between calls, "done" when a call has produced its outcome;
\* op: the operation that produced it.
\* xml, defaultPackageName: the parse result and the default identifier of
\* the running merge; result: its outcome (the tree handed to the XML
\* builder, or the TypeError thrown).  MANIFEST_ROOT: the static template;
\* rootBefore: the template as the running call found it.
VARIABLES pc, op, xml, defaultPackageName, MANIFEST_ROOT, rootBefore, result

\* includeGradle: the content read from include.gradle; scopes: the result
\* of getIncludeGradleCompileDependenciesScope; buildGradle: the text
\* appended to build.gradle; productFlavorsScope and newIncludeGradle: the
\* locals of migrateIncludeGradle.
VARIABLES includeGradle, scopes, buildGradle, productFlavorsScope, newIncludeGradle

\* encodeBody: the logger's field; args: the arguments of the running debug
\* or trace call (declared string[], so the typeof guard of line 121 never
\* fires); forwarded: what reaches log4js; thrown: the call threw.
VARIABLES encodeBody, args, forwarded, thrown

mvars == <<pc, op, xml, defaultPackageName, MANIFEST_ROOT, rootBefore, result>>

svars == <<includeGradle, scopes, buildGradle, productFlavorsScope, newIncludeGradle>>

lvars == <<encodeBody, args, forwarded, thrown>>

vars == <<mvars, svars, lvars>>

(* ------------------------------------------------------------------ *)
(* JavaScript values: null, undefined, strings and objects.           *)
(* ------------------------------------------------------------------ *)
NoProps == [k \in {} |-> 0]

Null == [t |-> "null", s |-> "", o |-> NoProps]

Undefined == [t |-> "undefined", s |-> "", o |-> NoProps]

Str(s) == [t |-> "string", s |-> s, o |-> NoProps]

Obj(f) == [t |-> "object", s |-> "", o |-> f]

\* ToBoolean of a value in an `if (...)`
Truthy(v) == IF v.t = "string" THEN v.s # "" ELSE v.t = "object"

\* v[k] throws a TypeError when v is null or undefined
Throws(v) == v.t \in {"null", "undefined"}

\* v[k] for a v that is neither null nor undefined
Get(v, k) == IF v.t = "object" /\ k \in DOMAIN v.o THEN v.o[k] ELSE Undefined

\* o[k] = v on an object
Put(v, k, w) == Obj([x \in DOMAIN v.o \cup {k} |-> IF x = k THEN w ELSE v.o[x]])

TypeError == [status |-> "TypeError", tree |-> Undefined]

Ok(tree) == [status |-> "ok", tree |-> tree]

NoResult == [status |-> "none", tree |-> Undefined]

(* ------------------------------------------------------------------ *)
(* Bounds and inputs of the manifest merge                            *)
(* ------------------------------------------------------------------ *)
NumIdentifiers == 2

IdentifierPool == <<"org.nativescript.a", "org.nativescript.b", "org.nativescript.c", "org.nativescript.d">>

\* "org.nativescript." + shortPluginName
Identifiers == {IdentifierPool[i] : i \in 1..NumIdentifiers}

XmlnsAndroid == "http://schemas.android.com/apk/res/android"

PackageValues == {"", "com.x", "org.nativescript.a"}

\* attribute containers the parser produces: never empty
AttrObjects ==
  {Obj([k \in {"package"} |-> Str(p)]) : p \in PackageValues}
  \cup {Obj([k \in {"xmlns:android"} |-> Str(XmlnsAndroid)])}
  \cup {Obj([k \in {"package", "xmlns:android"} |->
              IF k = "package" THEN Str(p) ELSE Str(XmlnsAndroid)]) : p \in PackageValues}

\* values of a nested <application> element
ChildValues == {Str(""), Obj([k \in {"$"} |-> Obj([j \in {"package"} |-> Str("com.y")])])}

\* what the parser yields for an element: "" when it is empty, its text, or
\* an object holding "$" (only when it has attributes) and its children
ElementValues ==
  {Str(""), Str("text")}
  \cup {Obj([k \in {"$"} |-> a]) : a \in AttrObjects}
  \cup {Obj([k \in {"application"} |-> c]) : c \in ChildValues}
  \cup {Obj([k \in {"$", "application"} |-> IF k = "$" THEN a ELSE c]) :
          a \in AttrObjects, c \in ChildValues}

RootNames == {"manifest", "application"}

\* results of getXml: one root element, or null for blank content
ParsedContents ==
  {Null} \cup {Obj([k \in {r} |-> e]) : r \in RootNames, e \in ElementValues}

(* ------------------------------------------------------------------ *)
(* updateManifestContent / createManifestContent                      *)
(* ------------------------------------------------------------------ *)
\* lines 64-72: copy the properties, write the package, build
buildManifest(x, packageName) ==
  LET manifest == Obj(x.o)
  IN IF Throws(Get(manifest, "$"))
     THEN TypeError
     ELSE Ok(Obj([k \in {"manifest"} |->
                   Put(manifest, "$", Put(Get(manifest, "$"), "package", packageName))]))

\* the default always wins: the existing package is never read
updateManifestContent_defaultWins(parsed, defaultName) ==
  IF Throws(parsed)
  THEN TypeError
  ELSE IF Truthy(Get(parsed, "manifest"))
       THEN LET m == Get(parsed, "manifest")
            IN IF Throws(Get(m, "$"))
               THEN TypeError
               ELSE buildManifest(m, Str(defaultName))
       ELSE buildManifest(parsed, Str(defaultName))

updateManifestContent(parsed, defaultName) ==
  IF Throws(parsed)
  THEN TypeError
  ELSE IF Truthy(Get(parsed, "manifest"))
       THEN LET m == Get(parsed, "manifest")
            IN IF Throws(Get(m, "$"))
               THEN TypeError
               ELSE LET packageName ==
                          IF Truthy(Get(Get(m, "$"), "package"))
                          THEN Get(Get(m, "$"), "package")
                          ELSE Str(defaultName)
                    IN buildManifest(m, packageName)
       ELSE buildManifest(parsed, Str(defaultName))

\* the package is written only when the template has none yet
createManifestContent_keepFirst(root, packageName) ==
  IF Get(Get(root, "$"), "package").t = "undefined"
  THEN Put(root, "$", Put(Get(root, "$"), "package", Str(packageName)))
  ELSE root

\* the shared template after the write of line 79
createManifestContent(root, packageName) ==
  Put(root, "$", Put(Get(root, "$"), "package", Str(packageName)))

ManifestRootInit == Obj([k \in {"$"} |-> Obj([j \in {"xmlns:android"} |-> Str(XmlnsAndroid)])])

InitManifest ==
  /\ includeGradle = <<>>
  /\ scopes = <<>>
  /\ buildGradle = <<>>
  /\ productFlavorsScope = <<>>
  /\ newIncludeGradle = <<>>
  /\ encodeBody = FALSE
  /\ args = <<>>
  /\ forwarded = <<>>
  /\ thrown = FALSE
  /\ pc = "idle"
  /\ op = "none"
  /\ xml = Null
  /\ defaultPackageName = ""
  /\ MANIFEST_ROOT = ManifestRootInit
  /\ rootBefore = ManifestRootInit
  /\ result = NoResult

\* buildAar with a manifest file present (lines 199-209)
UpdateManifest ==
  /\ UNCHANGED <<svars, lvars>>
  /\ pc = "idle"
  /\ \E parsed \in ParsedContents, d \in Identifiers :
       /\ xml' = parsed
       /\ defaultPackageName' = d
       /\ result' = updateManifestContent(parsed, d)
  /\ op' = "update"
  /\ pc' = "done"
  /\ rootBefore' = MANIFEST_ROOT
  /\ UNCHANGED MANIFEST_ROOT

\* buildAar without a manifest file (lines 210-212)
CreateManifest ==
  /\ UNCHANGED <<svars, lvars>>
  /\ pc = "idle"
  /\ \E d \in Identifiers :
       /\ defaultPackageName' = d
       /\ MANIFEST_ROOT' = createManifestContent(MANIFEST_ROOT, d)
       /\ result' = Ok(Obj([k \in {"manifest"} |-> createManifestContent(MANIFEST_ROOT, d)]))
  /\ xml' = Null
  /\ op' = "create"
  /\ pc' = "done"
  /\ rootBefore' = MANIFEST_ROOT

\* the caller takes the text; the service is ready for the next build
ReturnManifest ==
  /\ UNCHANGED <<svars, lvars>>
  /\ pc = "done"
  /\ pc' = "idle"
  /\ op' = "none"
  /\ xml' = Null
  /\ defaultPackageName' = ""
  /\ result' = NoResult
  /\ rootBefore' = MANIFEST_ROOT
  /\ UNCHANGED MANIFEST_ROOT

NextManifest == UpdateManifest \/ CreateManifest \/ ReturnManifest

SpecManifest == InitManifest /\ [][NextManifest]_vars

(* ------------------------------------------------------------------ *)
(* Properties of the manifest merge                                   *)
(* ------------------------------------------------------------------ *)
HasManifestNode(x) == x.t = "object" /\ "manifest" \in DOMAIN x.o

\* the package attribute of the top-level manifest node of a parse result
PackageOf(x) == Get(Get(Get(x, "manifest"), "$"), "package")

Updated == pc = "done" /\ op = "update"

Created == pc = "done" /\ op = "create"

\* C1: a merge of a manifest whose package attribute is a non-empty p,
\* with a default d different from p, yields a manifest node whose package
\* attribute is p.
C1_ExistingPackageWins ==
  (/\ Updated
   /\ HasManifestNode(xml)
   /\ Truthy(PackageOf(xml))
   /\ PackageOf(xml).s # defaultPackageName)
  => /\ result.status = "ok"
     /\ PackageOf(result.tree) = PackageOf(xml)

C1_Witness ==
  /\ Updated
  /\ HasManifestNode(xml)
  /\ PackageOf(xml) = Str("com.x")
  /\ defaultPackageName = "org.nativescript.b"
  /\ result.status = "ok"

\* C2: a merge of a manifest whose manifest node has no package attribute,
\* an empty one, no attributes at all or no content at all completes and
\* yields a manifest node whose package attribute is the default.
C2_DefaultFillsMissingPackage ==
  (/\ Updated
   /\ HasManifestNode(xml)
   /\ ~Truthy(PackageOf(xml)))
  => /\ result.status = "ok"
     /\ PackageOf(result.tree) = Str(defaultPackageName)

\* C3: a merge of parsed content without a top-level manifest node completes,
\* every top-level key becomes a child of the synthesized manifest node, and
\* that node's package attribute is the default.
C3_FragmentGetsDefault ==
  (/\ Updated
   /\ xml.t = "object"
   /\ ~HasManifestNode(xml))
  => /\ result.status = "ok"
     /\ \A k \in DOMAIN xml.o : Get(Get(result.tree, "manifest"), k) = xml.o[k]
     /\ PackageOf(result.tree) = Str(defaultPackageName)

\* C4: whatever merges came before, a merge with absent content yields a
\* root manifest whose attributes are exactly package = d and the
\* xmlns:android declaration with the Android resource-schema URI.
C4_CreatedManifestShape ==
  Created =>
    /\ result.status = "ok"
    /\ DOMAIN result.tree.o = {"manifest"}
    /\ Get(result.tree, "manifest") =
         Obj([k \in {"$"} |->
               Obj([j \in {"package", "xmlns:android"} |->
                     IF j = "package" THEN Str(defaultPackageName) ELSE Str(XmlnsAndroid)])])

C4_Witness ==
  /\ Created
  /\ Truthy(Get(Get(rootBefore, "$"), "package"))
  /\ Get(Get(rootBefore, "$"), "package") # Str(defaultPackageName)
  /\ PackageOf(result.tree) = Str(defaultPackageName)

\* C9: no merge changes the shared empty-manifest template: it always
\* carries exactly the xmlns:android attribute and no package attribute.
C9_TemplateUnchanged == MANIFEST_ROOT = ManifestRootInit

(* ------------------------------------------------------------------ *)
(* Texts: strings are sequences of one-character strings              *)
(* ------------------------------------------------------------------ *)
MaxFragments == 5

dependencies == <<"d", "e", "p", "e", "n", "d", "e", "n", "c", "i", "e", "s">>

repositories == <<"r", "e", "p", "o", "s", "i", "t", "o", "r", "i", "e", "s">>

productFlavors == <<"p", "r", "o", "d", "u", "c", "t", "F", "l", "a", "v", "o", "r", "s">>

openingBracket == "{"

closingBracket == "}"

\* what `result += undefined` appends
undefinedText == <<"u", "n", "d", "e", "f", "i", "n", "e", "d">>

newline == <<"\n">>

\* the pieces include.gradle is made of: braces, other text, and the scope
\* names the operation reading the file looks for
CompileFragments == {dependencies, repositories, <<openingBracket>>, <<closingBracket>>, <<"x">>}

FlavorFragments == {productFlavors, <<openingBracket>>, <<closingBracket>>, <<"x">>}

RECURSIVE Flatten(_)
Flatten(ss) == IF ss = <<>> THEN <<>> ELSE Head(ss) \o Flatten(Tail(ss))

\* contents of include.gradle
Texts(Fragments, max) == UNION {{Flatten(f) : f \in [1..n -> Fragments]} : n \in 0..max}

OccursAt(content, name, i) ==
  /\ i + Len(name) <= Len(content)
  /\ \A j \in 1..Len(name) : content[i + j] = name[j]

\* String.prototype.indexOf: 0-based index of the first occurrence, or -1
RECURSIVE indexOfFrom(_, _, _)
indexOfFrom(content, name, i) ==
  IF i + Len(name) > Len(content) THEN -1
  ELSE IF OccursAt(content, name, i) THEN i
  ELSE indexOfFrom(content, name, i + 1)

indexOf(content, name) == indexOfFrom(content, name, 0)

\* String.prototype.replace with a string pattern and "": the first
\* occurrence of the pattern is removed
replaceFirst(content, pattern) ==
  LET i == indexOf(content, pattern)
  IN IF i = -1 THEN content
     ELSE SubSeq(content, 1, i) \o SubSeq(content, i + Len(pattern) + 1, Len(content))

\* Array.prototype.join("\n")
RECURSIVE join(_)
join(ss) ==
  IF ss = <<>> THEN <<>>
  ELSE IF Len(ss) = 1 THEN Head(ss)
  ELSE Head(ss) \o newline \o join(Tail(ss))

(* ------------------------------------------------------------------ *)
(* getScope and its callers                                           *)
(* ------------------------------------------------------------------ *)
\* the while loop of getScope; i is the 0-based index, -1 when the name
\* was not found, and content[-1] is undefined
RECURSIVE scanScope(_, _, _, _, _)
scanScope(content, i, openBrackets, foundFirstBracket, res) ==
  IF ~(i < Len(content)) THEN res
  ELSE LET isOpening == i >= 0 /\ content[i + 1] = openingBracket
           isClosing == i >= 0 /\ content[i + 1] = closingBracket
           found == foundFirstBracket \/ (isOpening /\ openBrackets = 0)
           opened == IF isOpening THEN openBrackets + 1 ELSE openBrackets
           open == IF isClosing THEN opened - 1 ELSE opened
           res2 == res \o (IF i >= 0 THEN <<content[i + 1]>> ELSE undefinedText)
       IN IF open = 0 /\ found THEN res2
          ELSE scanScope(content, i + 1, open, found, res2)

getScope(scopeName, content) ==
  scanScope(content, indexOf(content, scopeName), 0, FALSE, <<>>)

getIncludeGradleCompileDependenciesScope(includeGradleFileContent) ==
  IF indexOf(includeGradleFileContent, dependencies) = -1
  THEN <<>>
  ELSE (IF indexOf(includeGradleFileContent, repositories) >= 0
        THEN <<getScope(repositories, includeGradleFileContent)>>
        ELSE <<>>)
       \o <<getScope(dependencies, includeGradleFileContent)>>

InitScope ==
  /\ includeGradle = <<>>
  /\ scopes = <<>>
  /\ buildGradle = <<>>
  /\ productFlavorsScope = <<>>
  /\ newIncludeGradle = <<>>
  /\ encodeBody = FALSE
  /\ args = <<>>
  /\ forwarded = <<>>
  /\ thrown = FALSE
  /\ pc = "idle"
  /\ op = "none"
  /\ xml = Null
  /\ defaultPackageName = ""
  /\ MANIFEST_ROOT = ManifestRootInit
  /\ rootBefore = ManifestRootInit
  /\ result = NoResult

\* buildAar, lines 238-248: the scopes of include.gradle are appended to
\* the build.gradle copied from the template (empty here)
AppendIncludeGradleScopes ==
  /\ UNCHANGED lvars
  /\ pc = "idle"
  /\ \E text \in Texts(CompileFragments, MaxFragments) :
       LET repositoriesAndDependenciesScopes == getIncludeGradleCompileDependenciesScope(text)
       IN /\ includeGradle' = text
          /\ scopes' = repositoriesAndDependenciesScopes
          /\ buildGradle' =
               IF Len(repositoriesAndDependenciesScopes) > 0
               THEN newline \o join(repositoriesAndDependenciesScopes)
               ELSE <<>>
  /\ pc' = "done"
  /\ op' = "buildAar"
  /\ UNCHANGED <<productFlavorsScope, newIncludeGradle, xml, defaultPackageName, MANIFEST_ROOT, rootBefore, result>>

\* migrateIncludeGradle, lines 285-299
MigrateIncludeGradle ==
  /\ UNCHANGED lvars
  /\ pc = "idle"
  /\ \E text \in Texts(FlavorFragments, MaxFragments) :
       LET scope == getScope(productFlavors, text)
       IN /\ productFlavorsScope' = scope
          /\ includeGradle' = text
          /\ newIncludeGradle' = replaceFirst(text, scope)
  /\ pc' = "done"
  /\ op' = "migrate"
  /\ UNCHANGED <<scopes, buildGradle, xml, defaultPackageName, MANIFEST_ROOT, rootBefore, result>>

ReturnScope ==
  /\ UNCHANGED lvars
  /\ pc = "done"
  /\ pc' = "idle"
  /\ op' = "none"
  /\ includeGradle' = <<>>
  /\ scopes' = <<>>
  /\ buildGradle' = <<>>
  /\ productFlavorsScope' = <<>>
  /\ newIncludeGradle' = <<>>
  /\ UNCHANGED <<xml, defaultPackageName, MANIFEST_ROOT, rootBefore, result>>

NextScope == AppendIncludeGradleScopes \/ MigrateIncludeGradle \/ ReturnScope

SpecScope == InitScope /\ [][NextScope]_vars

(* ------------------------------------------------------------------ *)
(* Properties of the scope extraction                                 *)
(* ------------------------------------------------------------------ *)
Occurrences(content, name) ==
  {i \in 0..(Len(content) - Len(name)) : OccursAt(content, name, i)}

Occurs(content, name) == Occurrences(content, name) # {}

\* 0-based offset of the first occurrence of the name
FirstOccurrence(content, name) ==
  CHOOSE i \in Occurrences(content, name) : \A j \in Occurrences(content, name) : i <= j

\* 1-based positions of the opening brackets at or after the name
OpeningsAfter(content, name) ==
  {j \in (FirstOccurrence(content, name) + 1)..Len(content) : content[j] = openingBracket}

FirstOpening(content, name) ==
  CHOOSE j \in OpeningsAfter(content, name) : \A k \in OpeningsAfter(content, name) : j <= k

\* opening minus closing brackets in content[j..k]
Depth(content, j, k) ==
  Cardinality({n \in j..k : content[n] = openingBracket})
  - Cardinality({n \in j..k : content[n] = closingBracket})

\* positions that close the bracket opened at j
ClosingsOf(content, j) ==
  {k \in (j + 1)..Len(content) :
     /\ content[k] = closingBracket
     /\ Depth(content, j, k) = 0
     /\ \A n \in j..(k - 1) : Depth(content, j, n) > 0}

\* the name occurs and the first "{" after it is closed before the text ends
HasBlock(content, name) ==
  /\ Occurs(content, name)
  /\ OpeningsAfter(content, name) # {}
  /\ ClosingsOf(content, FirstOpening(content, name)) # {}

\* the text from the name through the bracket matching its first "{"
Block(content, name) ==
  SubSeq(content, FirstOccurrence(content, name) + 1,
         CHOOSE k \in ClosingsOf(content, FirstOpening(content, name)) : TRUE)

\* no "}" stands between the name and its first "{"
CleanBlock(content, name) ==
  /\ HasBlock(content, name)
  /\ \A n \in (FirstOccurrence(content, name) + 1)..FirstOpening(content, name) :
        content[n] # closingBracket

Migrated == pc = "done" /\ op = "migrate"

Appended == pc = "done" /\ op = "buildAar"

\* C5: extracting a scope yields nothing (no text at all) when the name does
\* not occur in the text, and when it occurs but the text ends before a "{"
\* following it is closed by its matching "}".
C5_AbsentWhenNoBlock ==
  /\ (Migrated /\ ~HasBlock(includeGradle, productFlavors)) => productFlavorsScope = <<>>
  /\ (Appended /\ Occurs(includeGradle, dependencies) /\ ~HasBlock(includeGradle, dependencies))
       => scopes[Len(scopes)] = <<>>

\* C6: when the first occurrence of the name is followed by a balanced
\* block, the extracted text is exactly the text from that occurrence
\* through the "}" matching the first "{" after it.
C6_ExactBalancedSpan ==
  /\ (Migrated /\ HasBlock(includeGradle, productFlavors))
       => productFlavorsScope = Block(includeGradle, productFlavors)
  /\ (Appended /\ HasBlock(includeGradle, dependencies))
       => scopes[Len(scopes)] = Block(includeGradle, dependencies)

\* C7: when a dependencies scope is found the result is
\* <<repositories block, dependencies block>> if a repositories scope is
\* found in the same text and <<dependencies block>> if none is.
C7_RepositoriesFirst ==
  (Appended /\ HasBlock(includeGradle, dependencies)) =>
    scopes = IF HasBlock(includeGradle, repositories)
             THEN <<Block(includeGradle, repositories), Block(includeGradle, dependencies)>>
             ELSE <<Block(includeGradle, dependencies)>>

\* C8: when no dependencies scope is found the result is empty, whether or
\* not a repositories block is present, and nothing is appended to
\* build.gradle.
C8_EmptyWithoutDependencies ==
  (Appended /\ ~HasBlock(includeGradle, dependencies)) =>
    /\ scopes = <<>>
    /\ buildGradle = <<>>

(* ------------------------------------------------------------------ *)
(* Logger: password masking of debug and trace arguments              *)
(* ------------------------------------------------------------------ *)
MaxArgFragments == 3

passwordKey == <<"p", "a", "s", "s", "w", "o", "r", "d", "=">>

capitalPasswordKey == <<"P", "a", "s", "s", "w", "o", "r", "d", "=">>

jsonPasswordKey == <<"\"", "p", "a", "s", "s", "w", "o", "r", "d", "\"", ":", "\"">>

\* encodeRequestPaths[0]
encodeRequestPath == <<"/", "a", "p", "p", "b", "u", "i", "l", "d", "e", "r", "/", "a", "p", "i", "/", "i", "t", "m", "s", "t", "r", "a", "n", "s", "p", "o", "r", "t", "e", "r", "/", "a", "p", "p", "l", "i", "c", "a", "t", "i", "o", "n", "s", "?", "u", "s", "e", "r", "n", "a", "m", "e", "=">>

\* the literal searched by argument.indexOf('path')
pathLiteral == <<"p", "a", "t", "h">>

ArgFragments ==
  {passwordKey, capitalPasswordKey, jsonPasswordKey, encodeRequestPath, pathLiteral,
   <<"w">>, <<"&">>, <<"\"">>, <<"\n">>}

Arguments == Texts(ArgFragments, MaxArgFragments)

\* characters the regular expression's `.` does not match
LineTerminators == {"\n", "\r"}

\* (.*?) followed by one of the terminators, or by $ when atEnd: the 0-based
\* offset where the lazy group ends, or -1 when the alternative fails
RECURSIVE lazyEnd(_, _, _, _)
lazyEnd(str, j, terminators, atEnd) ==
  IF j = Len(str) THEN (IF atEnd THEN j ELSE -1)
  ELSE IF str[j + 1] \in terminators THEN j
  ELSE IF str[j + 1] \in LineTerminators THEN -1
  ELSE lazyEnd(str, j + 1, terminators, atEnd)

\* [Pp]assword=(.*?)(['&,]|$) tried at offset i: [from, to) of group 1
firstAlternative(str, i) ==
  IF /\ i < Len(str)
     /\ str[i + 1] \in {"P", "p"}
     /\ OccursAt(str, Tail(passwordKey), i + 1)
  THEN [from |-> i + Len(passwordKey),
        to |-> lazyEnd(str, i + Len(passwordKey), {"'", "&", ","}, TRUE)]
  ELSE [from |-> 0, to |-> -1]

\* \"[Pp]assword\":\"(.*?)\" tried at offset i: [from, to) of group 3
secondAlternative(str, i) ==
  IF /\ i + 1 < Len(str)
     /\ str[i + 1] = "\""
     /\ str[i + 2] \in {"P", "p"}
     /\ OccursAt(str, SubSeq(jsonPasswordKey, 3, Len(jsonPasswordKey)), i + 2)
  THEN [from |-> i + Len(jsonPasswordKey),
        to |-> lazyEnd(str, i + Len(jsonPasswordKey), {"\""}, FALSE)]
  ELSE [from |-> 0, to |-> -1]

\* passwordRegex.exec(argument): the leftmost match, groups 1 and 3 as
\* [from, to) offsets, to = -1 for a group that did not take part
RECURSIVE passwordRegexExecFrom(_, _)
passwordRegexExecFrom(str, i) ==
  IF i > Len(str) THEN [matched |-> FALSE, g1 |-> [from |-> 0, to |-> -1], g3 |-> [from |-> 0, to |-> -1]]
  ELSE IF firstAlternative(str, i).to # -1
       THEN [matched |-> TRUE, g1 |-> firstAlternative(str, i), g3 |-> [from |-> 0, to |-> -1]]
  ELSE IF secondAlternative(str, i).to # -1
       THEN [matched |-> TRUE, g1 |-> [from |-> 0, to |-> -1], g3 |-> secondAlternative(str, i)]
  ELSE passwordRegexExecFrom(str, i + 1)

passwordRegexExec(str) == passwordRegexExecFrom(str, 0)

\* requestBodyRegex /^\"(.*?)\"$/
requestBodyMatches(str) ==
  /\ Len(str) >= 2
  /\ str[1] = "\""
  /\ str[Len(str)] = "\""
  /\ \A n \in 2..(Len(str) - 1) : str[n] \notin LineTerminators

\* new Array(n + 1).join('*')
stars(n) == [k \in 1..n |-> "*"]

\* String.prototype.replace with a string pattern: the first occurrence
replaceFirstWith(str, pattern, replacement) ==
  LET i == indexOf(str, pattern)
  IN IF i = -1 THEN str
     ELSE SubSeq(str, 1, i) \o replacement \o SubSeq(str, i + Len(pattern) + 1, Len(str))

getHiddenPassword(password, originalString) ==
  replaceFirstWith(originalString, password, stars(Len(password)))

\* the callback of _.map for one argument: what it returns (or that it
\* throws) and the encodeBody flag it leaves
encodeArgument(argument, body) ==
  LET m == passwordRegexExec(argument)
      \* passwordMatch[1] || passwordMatch[3]; a group that is "" is falsy
      g == IF m.g1.to # -1 /\ m.g1.to > m.g1.from THEN m.g1 ELSE m.g3
  IN IF m.matched
     THEN IF g.to = -1
          THEN [threw |-> TRUE, out |-> <<>>, body |-> body]
          ELSE [threw |-> FALSE,
                out |-> getHiddenPassword(SubSeq(argument, g.from + 1, g.to), argument),
                body |-> body]
     ELSE IF body /\ requestBodyMatches(argument)
     THEN [threw |-> FALSE,
           out |-> getHiddenPassword(SubSeq(argument, 2, Len(argument) - 1), argument),
           body |-> body]
     ELSE [threw |-> FALSE, out |-> argument,
           body |-> IF indexOf(argument, pathLiteral) > -1
                    THEN indexOf(argument, encodeRequestPath) > -1
                    ELSE body]

RECURSIVE getPasswordEncodedArguments(_, _)
getPasswordEncodedArguments(arguments, body) ==
  IF arguments = <<>> THEN [threw |-> FALSE, out |-> <<>>, body |-> body]
  ELSE LET first == encodeArgument(Head(arguments), body)
           rest == getPasswordEncodedArguments(Tail(arguments), first.body)
       IN IF first.threw THEN [threw |-> TRUE, out |-> <<>>, body |-> first.body]
          ELSE [threw |-> rest.threw,
                out |-> IF rest.threw THEN <<>> ELSE <<first.out>> \o rest.out,
                body |-> rest.body]

InitLogger ==
  /\ encodeBody = FALSE
  /\ args = <<>>
  /\ forwarded = <<>>
  /\ thrown = FALSE
  /\ includeGradle = <<>>
  /\ scopes = <<>>
  /\ buildGradle = <<>>
  /\ productFlavorsScope = <<>>
  /\ newIncludeGradle = <<>>
  /\ pc = "idle"
  /\ op = "none"
  /\ xml = Null
  /\ defaultPackageName = ""
  /\ MANIFEST_ROOT = ManifestRootInit
  /\ rootBefore = ManifestRootInit
  /\ result = NoResult

\* debug called with one string argument (lines 70-73)
Debug ==
  /\ pc = "idle"
  /\ \E argument \in Arguments :
       LET encodedArgs == getPasswordEncodedArguments(<<argument>>, encodeBody)
       IN /\ args' = <<argument>>
          /\ forwarded' = encodedArgs.out
          /\ thrown' = encodedArgs.threw
          /\ encodeBody' = encodedArgs.body
  /\ pc' = "done"
  /\ op' = "debug"
  /\ UNCHANGED <<xml, defaultPackageName, MANIFEST_ROOT, rootBefore, result, svars>>

\* trace called with one string argument (lines 75-78)
Trace ==
  /\ pc = "idle"
  /\ \E argument \in Arguments :
       LET encodedArgs == getPasswordEncodedArguments(<<argument>>, encodeBody)
       IN /\ args' = <<argument>>
          /\ forwarded' = encodedArgs.out
          /\ thrown' = encodedArgs.threw
          /\ encodeBody' = encodedArgs.body
  /\ pc' = "done"
  /\ op' = "trace"
  /\ UNCHANGED <<xml, defaultPackageName, MANIFEST_ROOT, rootBefore, result, svars>>

ReturnLogger ==
  /\ pc = "done"
  /\ pc' = "idle"
  /\ op' = "none"
  /\ args' = <<>>
  /\ forwarded' = <<>>
  /\ thrown' = FALSE
  /\ UNCHANGED <<encodeBody, xml, defaultPackageName, MANIFEST_ROOT, rootBefore, result, svars>>

NextLogger == Debug \/ Trace \/ ReturnLogger

SpecLogger == InitLogger /\ [][NextLogger]_vars

Logged == pc = "done" /\ op \in {"debug", "trace"}

\* the [from, to) offsets of the password value the pattern matched
MatchedValue(str) ==
  IF passwordRegexExec(str).g1.to # -1 THEN passwordRegexExec(str).g1 ELSE passwordRegexExec(str).g3

\* the argument with the characters of the matched value turned into "*"
Masked(str) ==
  [n \in 1..Len(str) |->
     IF n > MatchedValue(str).from /\ n <= MatchedValue(str).to THEN "*" ELSE str[n]]

\* C10: a debug or trace call whose argument matches the password pattern
\* completes, and forwards the argument with the characters of the matched
\* password value replaced by as many "*" and every other character unchanged.
C10_PasswordMasked ==
  (Logged /\ passwordRegexExec(args[1]).matched) =>
    /\ ~thrown
    /\ forwarded = <<Masked(args[1])>>

====
